---- MODULE Spec2Model ----
(***************************************************************************)
(* A model of gfapi (Go bindings over the glusterfs client library):       *)
(* Volume (volume.go) and Fd (fd.go).  The remote library (the C.glfs_*    *)
(* calls) is the environment: each call is modelled by what it does to a   *)
(* small remote file system and by the status / errno pair it hands back.  *)
(***************************************************************************)
EXTENDS Integers, Sequences, FiniteSets, TLC

VARIABLES
    \* the remote tree, where the remote refuses Mkdir, the MkdirAll callers
    fs, denied, mk,
    \* Volume.fs, the native glfs_t behind it, and the last Init / path call
    vfs, glfs, lastInit, lastOp,
    \* the Fd values, the remote table of native descriptors, the last Fd call
    fds, handles, lastFd,
    \* a raw directory-entry name buffer and what direntName made of it
    deBuf, deParsed, deOut,
    \* an open directory: its entries, the remote read position, the names
    \* handed to the caller so far, the size of each page, whether a remote
    \* call has reported a cause, and the last enumeration call
    dirEntries, dirPos, delivered, pages, dirFault, lastDir,
    \* one extended attribute on the remote, the last size query still in
    \* force, and the last get call
    xattr, xaQuery, lastXa,
    \* the last wrapper call, the remote symbolic links, the local paths that
    \* exist, and the log file the remote was last told to use
    lastCall, links, localDirs, logFile

mkVars == <<fs, denied, mk>>

volVars == <<vfs, glfs, lastInit, lastOp>>

fdVars == <<fds, handles, lastFd>>

deVars == <<deBuf, deParsed, deOut>>

dirVars == <<dirEntries, dirPos, delivered, pages, dirFault, lastDir>>

xaVars == <<xattr, xaQuery, lastXa>>

opsVars == <<lastCall, links, localDirs, logFile>>

vars == <<mkVars, volVars, fdVars, deVars, dirVars, xaVars, opsVars>>

notOps == <<mkVars, volVars, fdVars, deVars, dirVars, xaVars>>

notXa == <<mkVars, volVars, fdVars, deVars, dirVars, opsVars>>

notMk == <<volVars, fdVars, deVars, dirVars, xaVars, opsVars>>

notVol == <<mkVars, fdVars, deVars, dirVars, xaVars, opsVars>>

notFd == <<mkVars, volVars, deVars, dirVars, xaVars, opsVars>>

notDe == <<mkVars, volVars, fdVars, dirVars, xaVars, opsVars>>

notDir == <<mkVars, volVars, fdVars, deVars, xaVars, opsVars>>

(***************************************************************************)
(* Bounds                                                                  *)
(***************************************************************************)
\* longest path string handed to MkdirAll by the sequential caller
MaxPathLen == 3
\* longest path string handed to MkdirAll by the two racing callers
MaxRacePathLen == 3
\* most hosts handed to one Init call
MaxHosts == 2
\* descriptors (and native descriptor objects) in play
MaxFds == 2
\* longest buffer handed to a read or write
MaxBuf == 1
\* furthest the sequential cursor of a descriptor moves
MaxCursor == 2
\* largest byte value in a raw directory-entry name
MaxByte == 2
\* most entries in the enumerated directory
MaxEntries == 5
\* largest count handed to Readdir / Readdirnames
MaxReadN == 3
\* enumeration calls made on the directory
MaxCalls == 3
\* latest remote call of one enumeration that reports a cause
MaxFaultAt == 2
\* longest extended-attribute value
MaxAttrLen == 3
\* longest destination buffer handed to a get
MaxDest == 3
\* longest path string handed to a wrapper call
MaxOpPathLen == 1
\* longest log file name handed to SetLogging
MaxLogNameLen == 3

(***************************************************************************)
(* Program constants                                                       *)
(***************************************************************************)
\* len(dirent.Name): syscall.Dirent.Name is [256]int8
DirentNameLen == 256
\* "i > 255" in direntName
MaxNameIndex == 255

(***************************************************************************)
(* Path strings.  A path is a sequence of characters; "/" is the           *)
(* separator and "a" stands for any other byte.                            *)
(***************************************************************************)
Sep == "/"
Alphabet == {Sep, "a"}

StringsUpTo(n) == UNION {[1..k -> Alphabet] : k \in 0..n}

Paths == StringsUpTo(MaxPathLen)

RacePaths == StringsUpTo(MaxRacePathLen)

OpPaths == StringsUpTo(MaxOpPathLen)

LogNames == StringsUpTo(MaxLogNameLen)

\* os.IsPathSeparator
IsPathSeparator(c) == c = Sep

(***************************************************************************)
(* The remote file system: a tree of entries, each a directory, a regular  *)
(* file or a symbolic link whose target does not exist.  A node is the     *)
(* sequence of its path components; the root is the empty sequence.        *)
(***************************************************************************)
Root == << >>

\* the components of a path string: the maximal runs of non-separator
\* characters, in order (the remote resolver tokenises on "/")
RECURSIVE Tokens(_, _, _)
Tokens(path, k, cur) ==
    IF k > Len(path)
      THEN (IF cur = << >> THEN << >> ELSE << cur >>)
      ELSE IF IsPathSeparator(path[k])
             THEN (IF cur = << >> THEN << >> ELSE << cur >>) \o Tokens(path, k + 1, << >>)
             ELSE Tokens(path, k + 1, Append(cur, path[k]))

Components(path) == Tokens(path, 1, << >>)

Prefix(comps, k) == SubSeq(comps, 1, k)

\* the first component index at which resolution stops, or 0 when it
\* completes: a missing entry, a dangling link that must be followed, or a
\* non-directory that is not the last component
BadAt(tree, comps, follow, k) ==
    LET node == Prefix(comps, k)
        last == k = Len(comps)
    IN  \/ node \notin DOMAIN tree
        \/ tree[node] = "link" /\ (~last \/ follow)
        \/ ~last /\ tree[node] # "dir"

FirstBad(tree, comps, follow) ==
    LET bad == {k \in 1..Len(comps) : BadAt(tree, comps, follow, k)}
    IN  IF bad = {} THEN 0 ELSE CHOOSE k \in bad : \A m \in bad : k <= m

\* the remote path resolution: [err, kind, node]
Resolve(tree, path, follow) ==
    LET comps == Components(path)
        k == FirstBad(tree, comps, follow)
        node == Prefix(comps, k)
    IN  IF k = 0
          THEN [err |-> "nil", kind |-> tree[comps], node |-> comps]
          ELSE IF node \in DOMAIN tree /\ tree[node] \notin {"link"}
                 THEN [err |-> "ENOTDIR", kind |-> "none", node |-> node]
                 ELSE [err |-> "ENOENT", kind |-> "none", node |-> node]

\* glfs_stat / glfs_lstat: status and errno
glfs_stat(tree, path) == Resolve(tree, path, TRUE)

glfs_lstat(tree, path) == Resolve(tree, path, FALSE)

\* glfs_mkdir: [err, tree]: EEXIST when the path resolves (without
\* following a final link), the resolution error when an ancestor is missing
\* or is no directory, EACCES where the remote refuses, else the new tree
glfs_mkdir(tree, deny, path) ==
    LET comps == Components(path)
        self == Resolve(tree, path, FALSE)
        n == Len(comps)
    IN  IF self.err = "nil"
          THEN [err |-> "EEXIST", tree |-> tree]
          ELSE IF self.node # comps
                 THEN [err |-> self.err, tree |-> tree]
                 ELSE IF comps \in deny
                        THEN [err |-> "EACCES", tree |-> tree]
                        ELSE [err |-> "nil",
                              tree |-> [x \in DOMAIN tree \cup {comps} |->
                                          IF x = comps THEN "dir" ELSE tree[x]]]

(***************************************************************************)
(* Volume.Stat, Volume.Lstat, Volume.Mkdir                                 *)
(***************************************************************************)
NoError == [op |-> "", path |-> << >>, err |-> "nil"]

PathError(op, path, err) == [op |-> op, path |-> path, err |-> err]

\* Volume.Stat: the FileInfo (isDir) or a PathError{"stat", name, errno}
Stat(tree, name) ==
    LET r == glfs_stat(tree, name)
    IN  IF r.err # "nil"
          THEN [error |-> PathError("stat", name, r.err), isDir |-> FALSE]
          ELSE [error |-> NoError, isDir |-> r.kind = "dir"]

\* Volume.Lstat: the FileInfo (isDir) or the bare errno
Lstat(tree, name) ==
    LET r == glfs_lstat(tree, name)
    IN  IF r.err # "nil"
          THEN [error |-> PathError("", << >>, r.err), isDir |-> FALSE]
          ELSE [error |-> NoError, isDir |-> r.kind = "dir"]

\* Volume.Mkdir: nil or a PathError{"mkdir", name, errno}, and the tree after
Mkdir(tree, deny, name) ==
    LET r == glfs_mkdir(tree, deny, name)
    IN  [error |-> IF r.err # "nil" THEN PathError("mkdir", name, r.err) ELSE NoError,
         tree |-> r.tree]

(***************************************************************************)
(* Volume.MkdirAll, one remote call per step                               *)
(***************************************************************************)
Procs == {1, 2}

\* "for i > 0 && os.IsPathSeparator(path[i-1]) { i-- }"
RECURSIVE SkipTrailing(_, _)
SkipTrailing(path, i) ==
    IF i > 0 /\ IsPathSeparator(path[i]) THEN SkipTrailing(path, i - 1) ELSE i

\* "for j > 0 && !os.IsPathSeparator(path[j-1]) { j-- }"
RECURSIVE ScanElement(_, _)
ScanElement(path, j) ==
    IF j > 0 /\ ~IsPathSeparator(path[j]) THEN ScanElement(path, j - 1) ELSE j

\* j of the slow path: the parent is path[0:j-1] when j > 1
ParentEndWholePath(path) == Len(path) + 1

ParentEnd(path) == ScanElement(path, SkipTrailing(path, Len(path)))

\* the fast path after Stat: "nil", "enotdir" or "slow"
FastPathNoEarlyNil(st) ==
    IF st.error = NoError
      THEN (IF st.isDir THEN "slow" ELSE "enotdir")
      ELSE "slow"

FastPathNoNotDir(st) ==
    IF st.error = NoError
      THEN (IF st.isDir THEN "nil" ELSE "slow")
      ELSE "slow"

FastPath(st) ==
    IF st.error = NoError
      THEN (IF st.isDir THEN "nil" ELSE "enotdir")
      ELSE "slow"

\* the result once Mkdir has failed with mkErr and Lstat has answered
AfterMkdirNoRecheck(mkErr, lst) == mkErr

AfterMkdirFailed(mkErr, lst) ==
    IF lst.error = NoError /\ lst.isDir THEN NoError ELSE mkErr

Frame(path, pc) == [path |-> path, pc |-> pc, mkErr |-> NoError]

IdleProc ==
    [status |-> "idle", arg |-> << >>, stack |-> << >>, result |-> NoError,
     nStat |-> 0, nMkdir |-> 0, nLstat |-> 0, maxDepth |-> 0,
     fs0 |-> << >>, repeat |-> FALSE,
     last |-> [step |-> "none", path |-> << >>, mkErr |-> NoError,
               lstDir |-> FALSE, lstErr |-> "nil", ret |-> NoError]]

\* the process record after its top frame returns r: a nil return resumes
\* the caller at its Mkdir, an error is returned by every caller unchanged
Return(pr, r, lastStep) ==
    LET rest == SubSeq(pr.stack, 1, Len(pr.stack) - 1)
    IN  IF r = NoError /\ rest # << >>
          THEN [pr EXCEPT !.stack = rest, !.last = lastStep]
          ELSE [pr EXCEPT !.stack = << >>, !.status = "done", !.result = r,
                          !.last = lastStep]

Top(pr) == pr.stack[Len(pr.stack)]

SetTop(pr, f) == [pr.stack EXCEPT ![Len(pr.stack)] = f]

NoLast(step, path, ret) ==
    [step |-> step, path |-> path, mkErr |-> NoError, lstDir |-> FALSE,
     lstErr |-> "nil", ret |-> ret]

\* a caller invokes MkdirAll(path, perm)
Call(p, path) ==
    /\ mk[p].status \in {"idle", "done"}
    /\ mk' = [mk EXCEPT ![p] =
                [IdleProc EXCEPT !.status = "running", !.arg = path,
                                 !.stack = << Frame(path, "stat") >>,
                                 !.maxDepth = 1,
                                 !.fs0 = fs,
                                 !.repeat = /\ mk[p].status = "done"
                                            /\ mk[p].result = NoError
                                            /\ mk[p].arg = path]]
    /\ UNCHANGED <<fs, denied, notMk>>

\* lines 333-358: Stat, the fast path, and the call on the parent
StatStep(p) ==
    /\ mk[p].status = "running"
    /\ Top(mk[p]).pc = "stat"
    /\ LET pr == [mk[p] EXCEPT !.nStat = @ + 1]
           path == Top(pr).path
           st == Stat(fs, path)
           fast == FastPath(st)
           j == ParentEnd(path)
       IN  mk' = [mk EXCEPT ![p] =
             IF fast = "nil"
               THEN Return(pr, NoError, NoLast("stat", path, NoError))
             ELSE IF fast = "enotdir"
               THEN Return(pr, PathError("mkdir", path, "ENOTDIR"),
                           NoLast("stat", path, PathError("mkdir", path, "ENOTDIR")))
             ELSE IF j > 1
               THEN [pr EXCEPT
                       !.stack = Append(SetTop(pr, [Top(pr) EXCEPT !.pc = "mkdir"]),
                                        Frame(SubSeq(path, 1, j - 1), "stat")),
                       !.maxDepth = IF Len(pr.stack) + 1 > @
                                      THEN Len(pr.stack) + 1 ELSE @]
               ELSE [pr EXCEPT !.stack = SetTop(pr, [Top(pr) EXCEPT !.pc = "mkdir"])]]
    /\ UNCHANGED <<fs, denied, notMk>>

\* lines 361-362, 372: Mkdir of the path itself
MkdirStep(p) ==
    /\ mk[p].status = "running"
    /\ Top(mk[p]).pc = "mkdir"
    /\ LET pr == [mk[p] EXCEPT !.nMkdir = @ + 1]
           path == Top(pr).path
           r == Mkdir(fs, denied, path)
       IN  /\ fs' = r.tree
           /\ mk' = [mk EXCEPT ![p] =
                IF r.error = NoError
                  THEN Return(pr, NoError, NoLast("mkdir", path, NoError))
                  ELSE [pr EXCEPT !.stack =
                          SetTop(pr, [Top(pr) EXCEPT !.pc = "lstat", !.mkErr = r.error])]]
    /\ UNCHANGED <<denied, notMk>>

\* lines 365-369: the re-check with Lstat after a failed Mkdir
LstatStepRollback(p) ==
    /\ mk[p].status = "running"
    /\ Top(mk[p]).pc = "lstat"
    /\ LET pr == [mk[p] EXCEPT !.nLstat = @ + 1]
           path == Top(pr).path
           mkErr == Top(pr).mkErr
           lst == Lstat(fs, path)
           ret == AfterMkdirFailed(mkErr, lst)
       IN  /\ mk' = [mk EXCEPT ![p] =
                       Return(pr, ret,
                              [step |-> "lstat", path |-> path, mkErr |-> mkErr,
                               lstDir |-> lst.isDir, lstErr |-> lst.error.err,
                               ret |-> ret])]
           /\ fs' = IF ret = NoError THEN fs ELSE pr.fs0
    /\ UNCHANGED <<denied, notMk>>

LstatStep(p) ==
    /\ mk[p].status = "running"
    /\ Top(mk[p]).pc = "lstat"
    /\ LET pr == [mk[p] EXCEPT !.nLstat = @ + 1]
           path == Top(pr).path
           mkErr == Top(pr).mkErr
           lst == Lstat(fs, path)
           ret == AfterMkdirFailed(mkErr, lst)
       IN  mk' = [mk EXCEPT ![p] =
                    Return(pr, ret,
                           [step |-> "lstat", path |-> path, mkErr |-> mkErr,
                            lstDir |-> lst.isDir, lstErr |-> lst.error.err,
                            ret |-> ret])]
    /\ UNCHANGED <<fs, denied, notMk>>

(***************************************************************************)
(* The Volume life cycle: Init, InitWithVolfile, Mount, Unmount, and the   *)
(* path and open calls, none of which looks at anything but v.fs.          *)
(*                                                                         *)
(* vfs is the Go field v.fs ("nil" or "ptr").  glfs is the native object   *)
(* it points to: state "new" (glfs_new), "mounted" (glfs_init returned 0), *)
(* "failed" (glfs_init returned -1) or "freed" (glfs_fini released it and  *)
(* v.fs dangles); servers is its volfile-server list.                      *)
(***************************************************************************)
HostNames == {"h1", "h2"}

HostLists == UNION {[1..k -> HostNames] : k \in 0..MaxHosts}

NoNative == [state |-> "none", servers |-> << >>, volfile |-> FALSE]

NewNative == [state |-> "new", servers |-> << >>, volfile |-> FALSE]

\* glfs_set_volfile_server: adds host to the list, or fails and adds nothing
glfs_set_volfile_server(servers, host, bad) ==
    IF host \in bad
      THEN [ret |-> -1, servers |-> servers]
      ELSE [ret |-> 0, servers |-> Append(servers, host)]

NoCfgError == [kind |-> "nil", index |-> 0, of |-> 0, host |-> ""]

CreateError == [kind |-> "create", index |-> 0, of |-> 0, host |-> ""]

\* "error adding host %d of %d %q as a volserver"
HostError(i, n, host) == [kind |-> "host", index |-> i, of |-> n, host |-> host]

\* the loop of Init over hosts[i..] (i counts from 1 here, from 0 in Go)
RECURSIVE InitLoopKeepGoing(_, _, _, _)
InitLoopKeepGoing(hosts, i, servers, bad) ==
    IF i > Len(hosts)
      THEN [err |-> NoCfgError, servers |-> servers]
      ELSE LET r == glfs_set_volfile_server(servers, hosts[i], bad)
               rest == InitLoopKeepGoing(hosts, i + 1, r.servers, bad)
           IN  IF r.ret < 0 /\ rest.err = NoCfgError
                 THEN [err |-> HostError(i - 1, Len(hosts), hosts[i]),
                       servers |-> rest.servers]
                 ELSE rest

RECURSIVE InitLoop(_, _, _, _)
InitLoop(hosts, i, servers, bad) ==
    IF i > Len(hosts)
      THEN [err |-> NoCfgError, servers |-> servers]
      ELSE LET r == glfs_set_volfile_server(servers, hosts[i], bad)
           IN  IF r.ret < 0
                 THEN [err |-> HostError(i - 1, Len(hosts), hosts[i]),
                       servers |-> r.servers]
                 ELSE InitLoop(hosts, i + 1, r.servers, bad)

NoInit ==
    [called |-> FALSE, hosts |-> << >>, newOk |-> FALSE, bad |-> {},
     err |-> NoCfgError, registered |-> << >>]

NoOp == [op |-> "none", mounted |-> FALSE, err |-> "nil", file |-> FALSE,
         remoteOk |-> FALSE]

Mounted == vfs = "ptr" /\ glfs.state = "mounted"

\* Volume.Init(volname, hosts...): glfs_new may fail (newOk), and the remote
\* refuses the hosts in bad
VolumeInit(hosts, newOk, bad) ==
    /\ IF ~newOk
         THEN /\ vfs' = "nil"
              /\ glfs' = NoNative
              /\ lastInit' = [called |-> TRUE, hosts |-> hosts, newOk |-> newOk,
                              bad |-> bad, err |-> CreateError,
                              registered |-> << >>]
         ELSE LET r == InitLoop(hosts, 1, << >>, bad)
              IN  /\ vfs' = "ptr"
                  /\ glfs' = [NewNative EXCEPT !.servers = r.servers]
                  /\ lastInit' = [called |-> TRUE, hosts |-> hosts, newOk |-> newOk,
                                  bad |-> bad, err |-> r.err,
                                  registered |-> r.servers]
    /\ lastOp' = NoOp
    /\ UNCHANGED notVol

\* Volume.InitWithVolfile(volname, volfile): the status of glfs_set_volfile
\* is returned as an int; v.fs is not tested
InitWithVolfile(newOk, setOk) ==
    /\ IF ~newOk
         THEN vfs' = "nil" /\ glfs' = NoNative
         ELSE vfs' = "ptr" /\ glfs' = [NewNative EXCEPT !.volfile = setOk]
    /\ lastOp' = NoOp
    /\ UNCHANGED <<lastInit, notVol>>

\* what glfs_init can return for the native object's state, and the state
\* it leaves: a null handle is refused, a handle with no volfile source
\* cannot connect, a released handle is a dangling pointer (any outcome)
glfs_init(native, ok) ==
    CASE native.state = "none" -> [ret |-> -1, native |-> native]
      [] native.state = "new" ->
           IF ok /\ (native.servers # << >> \/ native.volfile)
             THEN [ret |-> 0, native |-> [native EXCEPT !.state = "mounted"]]
             ELSE [ret |-> -1, native |-> [native EXCEPT !.state = "failed"]]
      [] native.state = "mounted" -> [ret |-> 0, native |-> native]
      [] native.state = "failed" -> [ret |-> -1, native |-> native]
      [] native.state = "freed" -> [ret |-> IF ok THEN 0 ELSE -1, native |-> native]

\* Volume.Mount
Mount(ok) ==
    /\ LET r == glfs_init(glfs, ok)
       IN  /\ glfs' = r.native
           /\ lastOp' = [NoOp EXCEPT !.op = "Mount",
                                     !.mounted = Mounted,
                                     !.err = IF r.ret < 0 THEN "mount failed" ELSE "nil"]
    /\ UNCHANGED <<vfs, lastInit, notVol>>

\* glfs_fini: releases the native object; v.fs keeps pointing at it
glfs_fini(native, ok) ==
    CASE native.state = "none" -> [ret |-> -1, native |-> native]
      [] native.state \in {"new", "failed"} ->
           [ret |-> 0, native |-> [native EXCEPT !.state = "freed"]]
      [] native.state = "mounted" ->
           IF ok THEN [ret |-> 0, native |-> [native EXCEPT !.state = "freed"]]
                 ELSE [ret |-> -1, native |-> native]
      [] native.state = "freed" -> [ret |-> IF ok THEN 0 ELSE -1, native |-> native]

\* Volume.Unmount
Unmount(ok) ==
    /\ LET r == glfs_fini(glfs, ok)
       IN  /\ glfs' = r.native
           /\ lastOp' = [NoOp EXCEPT !.op = "Unmount",
                                     !.mounted = Mounted,
                                     !.err = IF r.ret < 0 THEN "failure to unmount volume"
                                                          ELSE "nil"]
    /\ UNCHANGED <<vfs, lastInit, notVol>>

\* the outcomes a remote path call can have on the native object: any on a
\* mounted volume; failure on a null or never-connected handle; anything at
\* all on a released one (the pointer dangles)
RemoteOutcomes(native, all) ==
    IF native.state \in {"mounted", "freed"} THEN all ELSE {"EINVAL"}

\* Volume.Stat: ret < 0 gives PathError{"stat", name, errno}
VolStatError(out) == IF out = "ok" THEN "nil" ELSE out

VolStat(out) ==
    /\ out \in RemoteOutcomes(glfs, {"ok", "ENOENT"})
    /\ lastOp' = [op |-> "Stat", mounted |-> Mounted, err |-> VolStatError(out),
                  file |-> FALSE, remoteOk |-> out = "ok"]
    /\ UNCHANGED <<vfs, glfs, lastInit, notVol>>

\* Volume.Open / OpenFile / Create: glfs_open (or glfs_creat), glfs_opendir
\* when errno is EISDIR, then the File unless cfd is nil
OpenResult(out, dirOut) ==
    LET cfd == IF out = "EISDIR" THEN dirOut = "ok" ELSE out = "ok"
        errno == IF out = "EISDIR" THEN (IF dirOut = "ok" THEN "nil" ELSE dirOut)
                                   ELSE (IF out = "ok" THEN "nil" ELSE out)
    IN  IF ~cfd THEN [err |-> errno, file |-> FALSE, isDir |-> FALSE]
                ELSE [err |-> "nil", file |-> TRUE, isDir |-> out = "EISDIR"]

VolOpen(op, out, dirOut) ==
    /\ out \in RemoteOutcomes(glfs, {"ok", "ENOENT", "EISDIR"})
    /\ dirOut \in RemoteOutcomes(glfs, {"ok", "ENOENT"})
    /\ out # "EISDIR" => dirOut = "ENOENT" \/ dirOut = "EINVAL"
    /\ LET r == OpenResult(out, dirOut)
       IN  lastOp' = [op |-> op, mounted |-> Mounted, err |-> r.err,
                      file |-> r.file,
                      remoteOk |-> out = "ok" \/ (out = "EISDIR" /\ dirOut = "ok")]
    /\ UNCHANGED <<vfs, glfs, lastInit, notVol>>

\* a Volume as declared: v.fs is nil
VolIdle ==
    /\ vfs = "nil"
    /\ glfs = NoNative
    /\ lastInit = NoInit
    /\ lastOp = NoOp

(***************************************************************************)
(* Descriptors.  An Fd holds nothing but the native pointer fd.fd (0 is    *)
(* nil).  handles is the remote table of native glfs_fd_t objects: a       *)
(* released one may be handed out again by a later open.                   *)
(***************************************************************************)
Fds == 1..MaxFds

Handles == 1..MaxFds

NoFd == [state |-> "none", ptr |-> 0]

FreeHandle == [live |-> FALSE, cursor |-> 0]

NoFdOp ==
    [op |-> "none", d |-> 0, onClosed |-> FALSE, len |-> 0, ptr |-> "none",
     count |-> 0, panicked |-> FALSE, remoteCalled |-> FALSE,
     withReleased |-> FALSE, n |-> 0, err |-> "nil", othersChanged |-> FALSE]

\* Volume.Open on a mounted volume: the remote allocates a native object
FdOpen(d, h) ==
    /\ fds[d].state = "none"
    /\ ~handles[h].live
    /\ fds' = [fds EXCEPT ![d] = [state |-> "open", ptr |-> h]]
    /\ handles' = [handles EXCEPT ![h] = [live |-> TRUE, cursor |-> 0]]
    /\ lastFd' = NoFdOp
    /\ UNCHANGED notFd

\* File.Close: the native object is released exactly once; a second Close is
\* reported as an error.  Whether the wrapper clears fd.fd (clear) is not
\* fixed by anything the Fd operations rely on: none of them tests it.
Close(d, clear) ==
    /\ fds[d].state \in {"open", "closed"}
    /\ IF fds[d].state = "open"
         THEN /\ handles' = [handles EXCEPT ![fds[d].ptr] = FreeHandle]
              /\ fds' = [fds EXCEPT ![d] = [state |-> "closed",
                                            ptr |-> IF clear THEN 0 ELSE @.ptr]]
              /\ lastFd' = [NoFdOp EXCEPT !.op = "Close", !.d = d]
         ELSE /\ UNCHANGED <<handles, fds>>
              /\ lastFd' = [NoFdOp EXCEPT !.op = "Close", !.d = d, !.onClosed = TRUE,
                                          !.err = "invalid handle"]
    /\ UNCHANGED notFd

\* the buffer pointer an I/O call hands to the remote call: Read and Write
\* pass &_zero for an empty buffer, Pread and Pwrite index b[0] regardless
\* (a run-time panic when b is empty)
IoPointer(op, len) ==
    IF op \in {"Read", "Write"}
      THEN (IF len > 0 THEN "buf" ELSE "zero")
      ELSE (IF len > 0 THEN "buf" ELSE "panic")

\* the error an I/O call returns for the remote status n and errno: Read and
\* Write test n < 0, Pread and Pwrite return errno as it is
IoError(op, n, errno) ==
    IF op \in {"Read", "Write"}
      THEN (IF n < 0 THEN errno ELSE "nil")
      ELSE errno

\* glfs_read / glfs_write / glfs_pread / glfs_pwrite on native pointer h:
\* a null handle is refused with EBADF; on a live object the call works (or
\* fails with EIO) and the sequential calls move its cursor; on a released
\* object that nobody reuses the pointer dangles and the call may do either
glfs_io(table, h, op, count, out) ==
    IF h = 0 \/ out # "ok"
      THEN [n |-> -1, errno |-> IF h = 0 \/ out = "ok" THEN "EBADF" ELSE out,
            table |-> table]
      ELSE [n |-> count, errno |-> "nil",
            table |-> IF table[h].live /\ op \in {"Read", "Write"}
                        THEN [table EXCEPT ![h].cursor = @ + count]
                        ELSE table]

IoOutcomes(table, h) ==
    IF h = 0 THEN {"EBADF"}
    ELSE IF table[h].live THEN {"ok", "EIO"}
    ELSE {"ok", "EBADF"}

\* Fd.Read, Fd.Write, Fd.Pread, Fd.Pwrite with a buffer of len bytes; stale
\* is what errno holds after a call that reported success
FdIo(d, op, len, out, stale) ==
    /\ fds[d].state \in {"open", "closed"}
    /\ out \in IoOutcomes(handles, fds[d].ptr)
    /\ LET h == fds[d].ptr
           p0 == IoPointer(op, len)
           r == glfs_io(handles, h, op, len, out)
           errno == IF r.n < 0 THEN r.errno ELSE stale
           closed == fds[d].state = "closed"
       IN  IF p0 = "panic"
             THEN /\ lastFd' = [NoFdOp EXCEPT !.op = op, !.d = d, !.onClosed = closed,
                                              !.len = len, !.ptr = p0,
                                              !.panicked = TRUE, !.err = "panic"]
                  /\ UNCHANGED handles
             ELSE /\ h # 0 /\ handles[h].live => handles[h].cursor + len <= MaxCursor
                  /\ handles' = r.table
                  /\ lastFd' = [op |-> op, d |-> d, onClosed |-> closed, len |-> len,
                                ptr |-> p0, count |-> len, panicked |-> FALSE,
                                remoteCalled |-> TRUE,
                                withReleased |-> closed /\ h # 0,
                                n |-> r.n, err |-> IoError(op, r.n, errno),
                                othersChanged |-> closed /\ r.table # handles]
    /\ UNCHANGED <<fds, notFd>>

\* Fd.Fstat: ret < 0 gives errno
FstatError(ret, errno) == IF ret < 0 THEN errno ELSE "nil"

Fstat(d, out, stale) ==
    /\ fds[d].state \in {"open", "closed"}
    /\ out \in IoOutcomes(handles, fds[d].ptr)
    /\ LET h == fds[d].ptr
           r == glfs_io(handles, h, "Fstat", 0, out)
           errno == IF r.n < 0 THEN r.errno ELSE stale
           closed == fds[d].state = "closed"
       IN  lastFd' = [NoFdOp EXCEPT !.op = "Fstat", !.d = d, !.onClosed = closed,
                                    !.remoteCalled = TRUE,
                                    !.withReleased = closed /\ h # 0,
                                    !.n = r.n, !.err = FstatError(r.n, errno)]
    /\ UNCHANGED <<fds, handles, notFd>>

FdIdle ==
    /\ fds = [d \in Fds |-> NoFd]
    /\ handles = [h \in Handles |-> FreeHandle]
    /\ lastFd = NoFdOp

(***************************************************************************)
(* direntName: the name held in the raw, fixed-size name buffer of a       *)
(* directory entry (syscall.Dirent.Name, DirentNameLen bytes)              *)
(***************************************************************************)
\* one iteration of "for i, c := range dirent.Name" (i counted from 0):
\* "if c == 0 || i > 255 { break }", else the byte is appended
DirentStepNoZeroTest(st, i, c) ==
    IF st.done THEN st
    ELSE IF i > MaxNameIndex
           THEN [st EXCEPT !.done = TRUE, !.lastRead = i]
           ELSE [name |-> Append(st.name, c), done |-> FALSE, lastRead |-> i]

DirentStep(st, i, c) ==
    IF st.done THEN st
    ELSE IF c = 0 \/ i > MaxNameIndex
           THEN [st EXCEPT !.done = TRUE, !.lastRead = i]
           ELSE [name |-> Append(st.name, c), done |-> FALSE, lastRead |-> i]

\* the iterations lo..hi of the loop, in order, from loop state st (the
\* range is halved only to keep the evaluation shallow; after the break
\* no further iteration runs)
RECURSIVE RangeLoop(_, _, _, _)
RangeLoop(buf, lo, hi, st) ==
    IF lo > hi THEN st
    ELSE IF lo = hi THEN DirentStep(st, lo, buf[lo + 1])
    ELSE LET mid == (lo + hi) \div 2
             left == RangeLoop(buf, lo, mid, st)
         IN  IF left.done THEN left ELSE RangeLoop(buf, mid + 1, hi, left)

\* direntName: the name and the last index read
direntName(buf) ==
    LET st == RangeLoop(buf, 0, Len(buf) - 1,
                        [name |-> << >>, done |-> FALSE, lastRead |-> -1])
    IN  [name |-> st.name, lastRead |-> st.lastRead]

\* a raw buffer: z name bytes, then (when z < DirentNameLen) a zero byte,
\* then whatever the remote left behind it
NameByte(i, b) == 1 + ((i + b) % MaxByte)

RawName(z, b, tail) ==
    [i \in 1..DirentNameLen |->
        IF i <= z THEN NameByte(i, b) ELSE IF i = z + 1 THEN 0 ELSE tail]

RawNames ==
    {RawName(z, b, tail) : z \in 0..DirentNameLen, b \in 1..MaxByte, tail \in 0..MaxByte}

NoName == [name |-> << >>, lastRead |-> -1]

ParseDirent ==
    /\ ~deParsed
    /\ deOut' = direntName(deBuf)
    /\ deParsed' = TRUE
    /\ UNCHANGED <<deBuf, notDe>>

DeIdle ==
    /\ deBuf = RawName(0, 1, 0)
    /\ deParsed = FALSE
    /\ deOut = NoName

(***************************************************************************)
(* Directory enumeration: Fd.Readdir and Fd.Readdirnames on one open       *)
(* directory.  dirEntries are the raw entries in the order the remote       *)
(* hands them out, dirPos is the remote read position.                     *)
(***************************************************************************)
\* the raw entry the remote holds for a name
MakeDirent(name) ==
    [i \in 1..DirentNameLen |-> IF i <= Len(name) THEN name[i] ELSE 0]

\* glfs_readdir / glfs_readdirplus: the next entry, or NULL at the end of
\* the directory; fault "error" is a failed call (NULL, errno set), fault
\* "stale" a call that worked and left errno set
glfs_readdir(names, pos, fault) ==
    IF fault = "error"
      THEN [null |-> TRUE, d |-> << >>, errno |-> "EIO", pos |-> pos]
      ELSE IF pos >= Len(names)
             THEN [null |-> TRUE, d |-> << >>,
                   errno |-> IF fault = "stale" THEN "EAGAIN" ELSE "nil",
                   pos |-> pos]
             ELSE [null |-> FALSE, d |-> names[pos + 1],
                   errno |-> IF fault = "stale" THEN "EAGAIN" ELSE "nil",
                   pos |-> pos + 1]

\* "for i := 0; n == 0 || i < n; i++": the faultAt-th remote call of this
\* enumeration (0: none) reports a cause
RECURSIVE EnumLoopOneMore(_, _, _, _, _, _, _)
EnumLoopOneMore(names, pos, n, i, acc, faultAt, kind) ==
    IF ~(n = 0 \/ i <= n)
      THEN [list |-> acc, err |-> "nil", pos |-> pos]
      ELSE LET r == glfs_readdir(names, pos, IF faultAt = i + 1 THEN kind ELSE "none")
           IN  IF r.errno # "nil"
                 THEN [list |-> << >>, err |-> r.errno, pos |-> r.pos]
                 ELSE IF r.null
                        THEN [list |-> acc, err |-> "nil", pos |-> r.pos]
                        ELSE EnumLoopOneMore(names, r.pos, n, i + 1,
                                             Append(acc, direntName(r.d).name),
                                             faultAt, kind)

RECURSIVE EnumLoop(_, _, _, _, _, _, _)
EnumLoop(names, pos, n, i, acc, faultAt, kind) ==
    IF ~(n = 0 \/ i < n)
      THEN [list |-> acc, err |-> "nil", pos |-> pos]
      ELSE LET r == glfs_readdir(names, pos, IF faultAt = i + 1 THEN kind ELSE "none")
           IN  IF r.errno # "nil"
                 THEN [list |-> << >>, err |-> r.errno, pos |-> r.pos]
                 ELSE IF r.null
                        THEN [list |-> acc, err |-> "nil", pos |-> r.pos]
                        ELSE EnumLoop(names, r.pos, n, i + 1,
                                      Append(acc, direntName(r.d).name),
                                      faultAt, kind)

NoDirOp == [op |-> "none", n |-> 0, before |-> 0, list |-> << >>, err |-> "nil"]

Enumerate(op, n, faultAt, kind) ==
    /\ Len(pages) < MaxCalls
    /\ LET r == EnumLoop(dirEntries, dirPos, n, 0, << >>, faultAt, kind)
       IN  /\ dirPos' = r.pos
           /\ delivered' = delivered \o r.list
           /\ pages' = Append(pages, Len(r.list))
           /\ dirFault' = (dirFault \/ r.err # "nil")
           /\ lastDir' = [op |-> op, n |-> n, before |-> dirPos, list |-> r.list,
                          err |-> r.err]
    /\ UNCHANGED <<dirEntries, notDir>>

\* Fd.Readdir(n): names with their FileInfo (glfs_readdirplus)
Readdir(n, faultAt, kind) == Enumerate("Readdir", n, faultAt, kind)

\* Fd.Readdirnames(n): names only (glfs_readdir)
Readdirnames(n, faultAt, kind) == Enumerate("Readdirnames", n, faultAt, kind)

\* the entries of the directory: k entries with distinct names
EntryName(k) == IF k % 2 = 0 THEN << 1, 1 + (k \div 2) >> ELSE << 1 + (k \div 2) >>

DirOf(k) == [i \in 1..k |-> MakeDirent(EntryName(i))]

DirIdle ==
    /\ dirEntries = << >>
    /\ dirPos = 0
    /\ delivered = << >>
    /\ pages = << >>
    /\ dirFault = FALSE
    /\ lastDir = NoDirOp

(***************************************************************************)
(* Extended attributes: Volume.Getxattr and Fd.Fgetxattr on one attribute  *)
(* of one file.  xattr is the remote value (or absent).                    *)
(***************************************************************************)
AttrValues == UNION {[1..k -> 1..MaxByte] : k \in 0..MaxAttrLen}

Absent == [present |-> FALSE, val |-> << >>]

Present(val) == [present |-> TRUE, val |-> val]

\* glfs_getxattr / glfs_fgetxattr(value, size): with size 0 the length of
\* the value and nothing written; ERANGE when the value does not fit;
\* ENODATA when the attribute does not exist
glfs_getxattr(attr, size) ==
    IF ~attr.present
      THEN [ret |-> -1, errno |-> "ENODATA", data |-> << >>]
      ELSE IF size = 0
             THEN [ret |-> Len(attr.val), errno |-> "nil", data |-> << >>]
             ELSE IF size < Len(attr.val)
                    THEN [ret |-> -1, errno |-> "ERANGE", data |-> << >>]
                    ELSE [ret |-> Len(attr.val), errno |-> "nil", data |-> attr.val]

\* "if len(dest) <= 0": a nil pointer and size 0, else &dest[0] and len(dest)
GetxattrArgs(destLen) ==
    IF destLen <= 0 THEN [ptr |-> "nil", size |-> 0]
                    ELSE [ptr |-> "dest", size |-> destLen]

\* "if ret >= 0 { return int64(ret), nil } else { return int64(ret), err }"
GetxattrReturnErrno(ret, errno) == [n |-> ret, err |-> errno]

GetxattrReturn(ret, errno) ==
    IF ret >= 0 THEN [n |-> ret, err |-> "nil"] ELSE [n |-> ret, err |-> errno]

NoXaOp ==
    [op |-> "none", destLen |-> 0, ptr |-> "none", size |-> 0, n |-> 0,
     err |-> "nil", written |-> << >>]

NoQuery == [valid |-> FALSE, n |-> 0]

\* stale is what errno holds after a remote call that reported success
GetAttr(op, destLen, stale) ==
    /\ LET a == GetxattrArgs(destLen)
           r == glfs_getxattr(xattr, a.size)
           errno == IF r.ret < 0 THEN r.errno ELSE stale
           res == GetxattrReturn(r.ret, errno)
       IN  /\ lastXa' = [op |-> op, destLen |-> destLen, ptr |-> a.ptr,
                         size |-> a.size, n |-> res.n, err |-> res.err,
                         written |-> r.data]
           /\ xaQuery' = IF destLen = 0
                           THEN [valid |-> res.err = "nil", n |-> res.n]
                           ELSE xaQuery
    /\ UNCHANGED <<xattr, notXa>>

\* Volume.Getxattr(path, attr, dest)
Getxattr(destLen, stale) == GetAttr("Getxattr", destLen, stale)

\* Fd.Fgetxattr(attr, dest)
Fgetxattr(destLen, stale) == GetAttr("Fgetxattr", destLen, stale)

\* Volume.Setxattr(path, attr, data, flags) with data not empty
Setxattr(data) ==
    /\ Len(data) > 0
    /\ xattr' = Present(data)
    /\ xaQuery' = NoQuery
    /\ lastXa' = NoXaOp
    /\ UNCHANGED notXa

\* Volume.Removexattr(path, attr)
Removexattr ==
    /\ xattr.present
    /\ xattr' = Absent
    /\ xaQuery' = NoQuery
    /\ lastXa' = NoXaOp
    /\ UNCHANGED notXa

XaIdle ==
    /\ xattr = Absent
    /\ xaQuery = NoQuery
    /\ lastXa = NoXaOp

(***************************************************************************)
(* The path and descriptor calls as wrappers: each hands its arguments to  *)
(* one remote call and turns the status and errno it gets back into its    *)
(* error value.  lastCall is the last such call: whether the remote call   *)
(* was issued, the buffer size it was given, its status (ok) and errno,    *)
(* the error value returned, the string returned, and whether the call     *)
(* ended in a run-time panic instead of returning.                         *)
(***************************************************************************)
\* a bare errno value (syscall.Errno) returned as the error: it carries no
\* operation name and no path
BareError(errno) == [op |-> "", path |-> << >>, err |-> errno]

\* calls that return the errno of the remote call without testing its status
UntestedPathOps == {"Chmod", "Chown", "Chtimes", "Truncate", "Listxattr"}

UntestedFdOps == {"Fchmod", "Fchown", "Futimens", "Ftruncate", "Pread", "Pwrite",
                  "lseek", "Readdir", "Readdirnames"}

\* calls that wrap a failure in os.PathError, with the operation name used
PathErrorName(op) ==
    CASE op = "Create" -> "create"
      [] op = "Unlink" -> "unlink"
      [] op = "Mkdir" -> "mkdir"
      [] op = "Rmdir" -> "rmdir"
      [] op = "Stat" -> "stat"
      [] op \in {"Open", "OpenFile"} -> "open"
      [] OTHER -> ""

\* calls that return the bare errno when the status reports a failure
BarePathOps == {"Lstat", "Rename", "Getxattr", "Setxattr", "Removexattr",
                "Statvfs", "Access", "Link", "Symlink"}

TestedFdOps == {"Fstat", "Fsync", "Read", "Write", "Fallocate", "Fgetxattr",
                "Fsetxattr", "Fremovexattr"}

PathOpNames ==
    UntestedPathOps \cup BarePathOps
      \cup {"Create", "Unlink", "Mkdir", "Rmdir", "Stat", "Open", "OpenFile"}

FdOpNames == UntestedFdOps \cup TestedFdOps

\* the error value a call returns for the status (ok) and errno of its
\* remote call
Wrap(op, path, ok, errno) ==
    IF op \in UntestedPathOps \cup UntestedFdOps THEN BareError(errno)
    ELSE IF ok THEN NoError
    ELSE IF PathErrorName(op) # "" THEN PathError(PathErrorName(op), path, errno)
    ELSE BareError(errno)

NoCall ==
    [op |-> "none", path |-> << >>, called |-> FALSE, size |-> 0, ok |-> FALSE,
     errno |-> "nil", error |-> NoError, value |-> << >>, panicked |-> FALSE]

\* a path call of the Volume other than Readlink and SetLogging
PathCall(op, path, ok, errno) ==
    /\ op \in PathOpNames
    /\ lastCall' = [NoCall EXCEPT !.op = op, !.path = path, !.called = TRUE,
                          !.ok = ok, !.errno = errno,
                          !.error = Wrap(op, path, ok, errno)]
    /\ UNCHANGED <<links, localDirs, logFile, notOps>>

\* a call on a descriptor
FdCall(op, ok, errno) ==
    /\ op \in FdOpNames
    /\ lastCall' = [NoCall EXCEPT !.op = op, !.called = TRUE,
                          !.ok = ok, !.errno = errno,
                          !.error = Wrap(op, << >>, ok, errno)]
    /\ UNCHANGED <<links, localDirs, logFile, notOps>>

(***************************************************************************)
(* Readlink.  links maps the path of each remote symbolic link to its      *)
(* target.                                                                 *)
(***************************************************************************)
\* "var buf []byte": the target buffer is the nil slice
ReadlinkBufLen == 0

\* &buf[0]: the address of the first element, a run-time panic (index out of
\* range) when the slice is empty
FirstElement(len) == IF len > 0 THEN "buf" ELSE "panic"

\* glfs_readlink(path, buf, bufsiz): at most bufsiz bytes of the target, not
\* terminated, and their number; EINVAL for a bufsiz of 0 or a path that is
\* not a symbolic link
glfs_readlink(lnks, path, size) ==
    IF path \notin DOMAIN lnks \/ size = 0
      THEN [ret |-> -1, errno |-> "EINVAL", data |-> << >>]
      ELSE LET target == lnks[path]
               k == IF Len(target) < size THEN Len(target) ELSE size
           IN  [ret |-> k, errno |-> "nil", data |-> SubSeq(target, 1, k)]

\* string(buf): the whole buffer, the bytes the remote did not write being 0
WholeBuffer(data, size) == [i \in 1..size |-> IF i <= Len(data) THEN data[i] ELSE "0"]

Readlink(path, stale) ==
    /\ LET ptr == FirstElement(ReadlinkBufLen)
           r == glfs_readlink(links, path, ReadlinkBufLen)
           errno == IF r.ret < 0 THEN r.errno ELSE stale
       IN  lastCall' =
             IF ptr = "panic"
               THEN [NoCall EXCEPT !.op = "Readlink", !.path = path, !.panicked = TRUE]
               ELSE [NoCall EXCEPT !.op = "Readlink", !.path = path, !.called = TRUE,
                                   !.size = ReadlinkBufLen, !.ok = r.ret >= 0,
                                   !.errno = errno,
                                   !.error = IF r.ret < 0 THEN BareError(errno) ELSE NoError,
                                   !.value = IF r.ret < 0 THEN << >>
                                             ELSE WholeBuffer(r.data, ReadlinkBufLen)]
    /\ UNCHANGED <<links, localDirs, logFile, notOps>>

(***************************************************************************)
(* SetLogging.  localDirs is the set of paths (in the form path.Clean      *)
(* gives them) that exist on the local file system, where the log file is  *)
(* written; logFile is the log file argument of the last remote            *)
(* set-logging call issued, if any.                                        *)
(***************************************************************************)
Dot == << "." >>

\* the index of the last separator of a path string, or 0
LastSep(name) ==
    LET seps == {i \in 1..Len(name) : IsPathSeparator(name[i])}
    IN  IF seps = {} THEN 0 ELSE CHOOSE i \in seps : \A j \in seps : j <= i

RECURSIVE JoinFrom(_, _)
JoinFrom(comps, k) ==
    IF k > Len(comps) THEN << >>
    ELSE comps[k] \o (IF k < Len(comps) THEN << Sep >> ELSE << >>) \o JoinFrom(comps, k + 1)

\* path.Clean on strings of separators and plain characters: repeated and
\* trailing separators go, the empty string becomes "."
Clean(p) ==
    LET rooted == Len(p) > 0 /\ IsPathSeparator(p[1])
        body == JoinFrom(Components(p), 1)
    IN  IF rooted THEN << Sep >> \o body
        ELSE IF body = << >> THEN Dot ELSE body

\* path.Dir: all but the last element of the path, cleaned
Dir(name) == Clean(SubSeq(name, 1, LastSep(name)))

\* os.Stat on the local file system
LocalStat(local, p) ==
    IF p \in local THEN NoError ELSE PathError("stat", p, "ENOENT")

\* the test made before the remote call: none for the empty name, else
\* os.Stat(path.Dir(name))
LoggingNoCheck(name, local) == NoError

LoggingCheck(name, local) ==
    IF name = << >> THEN NoError ELSE LocalStat(local, Dir(name))

Unset == << "unset" >>

\* the log file argument handed to glfs_set_logging
LoggingArg(name) == IF name = << >> THEN << "NULL" >> ELSE name

SetLogging(name, ok, errno) ==
    /\ LET check == LoggingCheck(name, localDirs)
       IN  IF check # NoError
             THEN /\ lastCall' = [NoCall EXCEPT !.op = "SetLogging", !.path = name,
                                                !.error = check]
                  /\ UNCHANGED logFile
             ELSE /\ lastCall' = [NoCall EXCEPT !.op = "SetLogging", !.path = name,
                                                !.called = TRUE, !.ok = ok,
                                                !.errno = errno,
                                                !.error = IF ok THEN NoError
                                                          ELSE BareError(errno)]
                  /\ logFile' = LoggingArg(name)
    /\ UNCHANGED <<links, localDirs, notOps>>

OpsIdle ==
    /\ lastCall = NoCall
    /\ links = << >>
    /\ localDirs = {}
    /\ logFile = Unset

(***************************************************************************)
(* Initial remote trees                                                    *)
(***************************************************************************)
A == << "a" >>

Kinds == {"dir", "file", "link"}

Tree1(k) == (Root :> "dir") @@ (<< A >> :> k)

Tree2(k) == (Root :> "dir") @@ (<< A >> :> "dir") @@ (<< A, A >> :> k)

InitTrees ==
    {(Root :> "dir")} \cup {Tree1(k) : k \in Kinds} \cup {Tree2(k) : k \in Kinds}

\* where the remote refuses a Mkdir (permissions)
DeniedChoices == { {}, {<< A >>}, {<< A, A >>} }

MkInit ==
    /\ fs \in InitTrees
    /\ denied \in DeniedChoices
    /\ mk = [p \in Procs |-> IdleProc]

Init == MkInit /\ VolIdle /\ FdIdle /\ DeIdle /\ DirIdle /\ XaIdle /\ OpsIdle

\* one caller, any path, call after call
Next ==
    \/ \E path \in Paths : Call(1, path)
    \/ StatStep(1)
    \/ MkdirStep(1)
    \/ LstatStep(1)

Spec == Init /\ [][Next]_vars

\* two callers, one MkdirAll each, interleaved at the remote calls
RaceCall(p, path) ==
    /\ mk[p].status = "idle"
    /\ Call(p, path)

NextRace ==
    \/ \E p \in Procs, path \in RacePaths : RaceCall(p, path)
    \/ \E p \in Procs : StatStep(p)
    \/ \E p \in Procs : MkdirStep(p)
    \/ \E p \in Procs : LstatStep(p)

SpecRace == Init /\ [][NextRace]_vars

\* one MkdirAll call on a tree that starts empty, while other clients
\* change the remote tree between its remote calls; the caller runs on
\* whenever a remote call has returned
Meddle ==
    /\ mk[1].status = "running"
    /\ fs' \in InitTrees \ {fs}
    /\ UNCHANGED <<denied, mk, notMk>>

InitLive ==
    /\ fs = (Root :> "dir")
    /\ denied = {}
    /\ mk = [p \in Procs |-> IdleProc]
    /\ VolIdle /\ FdIdle /\ DeIdle /\ DirIdle /\ XaIdle /\ OpsIdle

NextLive ==
    \/ \E path \in Paths : RaceCall(1, path)
    \/ StatStep(1)
    \/ MkdirStep(1)
    \/ LstatStep(1)
    \/ Meddle

SpecLive ==
    /\ InitLive
    /\ [][NextLive]_vars
    /\ WF_mk(StatStep(1) \/ MkdirStep(1) \/ LstatStep(1))

\* a Volume driven through its life cycle in any order
MkIdle ==
    /\ fs = (Root :> "dir")
    /\ denied = {}
    /\ mk = [p \in Procs |-> IdleProc]

InitVolume == MkIdle /\ VolIdle /\ FdIdle /\ DeIdle /\ DirIdle /\ XaIdle /\ OpsIdle

NextVolume ==
    \/ \E hosts \in HostLists, newOk \in BOOLEAN, bad \in SUBSET HostNames :
          VolumeInit(hosts, newOk, bad)
    \/ \E newOk \in BOOLEAN, setOk \in BOOLEAN : InitWithVolfile(newOk, setOk)
    \/ \E ok \in BOOLEAN : Mount(ok)
    \/ \E ok \in BOOLEAN : Unmount(ok)
    \/ \E out \in {"ok", "ENOENT", "EINVAL"} : VolStat(out)
    \/ \E op \in {"Open", "OpenFile", "Create"},
          out \in {"ok", "ENOENT", "EISDIR", "EINVAL"},
          dirOut \in {"ok", "ENOENT", "EINVAL"} : VolOpen(op, out, dirOut)

SpecVolume == InitVolume /\ [][NextVolume]_vars

\* descriptors opened, used and closed on a mounted Volume
InitFd == MkIdle /\ VolIdle /\ FdIdle /\ DeIdle /\ DirIdle /\ XaIdle /\ OpsIdle

Stale == {"nil", "EAGAIN"}

NextFd ==
    \/ \E d \in Fds, h \in Handles : FdOpen(d, h)
    \/ \E d \in Fds, clear \in BOOLEAN : Close(d, clear)
    \/ \E d \in Fds, op \in {"Read", "Write", "Pread", "Pwrite"}, len \in 0..MaxBuf,
          out \in {"ok", "EIO", "EBADF"}, stale \in Stale :
          FdIo(d, op, len, out, stale)
    \/ \E d \in Fds, out \in {"ok", "EIO", "EBADF"}, stale \in Stale :
          Fstat(d, out, stale)

SpecFd == InitFd /\ [][NextFd]_vars

\* direntName applied to every raw buffer of the family
InitDirent ==
    /\ MkIdle /\ VolIdle /\ FdIdle /\ DirIdle /\ XaIdle /\ OpsIdle
    /\ deBuf \in RawNames
    /\ deParsed = FALSE
    /\ deOut = NoName

NextDirent == ParseDirent

SpecDirent == InitDirent /\ [][NextDirent]_vars

\* one open directory enumerated page by page
InitDir ==
    /\ MkIdle /\ VolIdle /\ FdIdle /\ DeIdle /\ XaIdle /\ OpsIdle
    /\ dirEntries \in {DirOf(k) : k \in 0..MaxEntries}
    /\ dirPos = 0
    /\ delivered = << >>
    /\ pages = << >>
    /\ dirFault = FALSE
    /\ lastDir = NoDirOp

\* no remote call of the enumeration reports a cause, or the at-th does
Faults ==
    {[at |-> 0, kind |-> "none"]}
      \cup [at : 1..MaxFaultAt, kind : {"error", "stale"}]

NextDir ==
    \/ \E n \in 0..MaxReadN, f \in Faults : Readdir(n, f.at, f.kind)
    \/ \E n \in 0..MaxReadN, f \in Faults : Readdirnames(n, f.at, f.kind)

SpecDir == InitDir /\ [][NextDir]_vars

\* gets of every destination size against an attribute that comes and goes
InitXattr ==
    /\ MkIdle /\ VolIdle /\ FdIdle /\ DeIdle /\ DirIdle /\ OpsIdle
    /\ xattr \in {Absent} \cup {Present(v) : v \in AttrValues}
    /\ xaQuery = NoQuery
    /\ lastXa = NoXaOp

NextXattr ==
    \/ \E destLen \in 0..MaxDest, stale \in Stale : Getxattr(destLen, stale)
    \/ \E destLen \in 0..MaxDest, stale \in Stale : Fgetxattr(destLen, stale)
    \/ \E data \in AttrValues : Setxattr(data)
    \/ Removexattr

SpecXattr == InitXattr /\ [][NextXattr]_vars

\* the wrapper calls, each with every status and errno of its remote call:
\* a failure with its cause, or a success with what the call left in errno
LinkChoices ==
    {<< >>, (<< "a" >> :> << Sep, "a" >>),
     (<< "a" >> :> << Sep, "a" >>) @@ (<< Sep >> :> << "a", "a" >>)}

Causes == {"ENOENT", "EACCES"}

RemoteResults == [ok : {TRUE}, errno : Stale] \cup [ok : {FALSE}, errno : Causes]

InitOps ==
    /\ MkIdle /\ VolIdle /\ FdIdle /\ DeIdle /\ DirIdle /\ XaIdle
    /\ lastCall = NoCall
    /\ links \in LinkChoices
    /\ localDirs = {}
    /\ logFile = Unset

NextOps ==
    \/ \E op \in PathOpNames, path \in OpPaths, r \in RemoteResults :
          PathCall(op, path, r.ok, r.errno)
    \/ \E op \in FdOpNames, r \in RemoteResults : FdCall(op, r.ok, r.errno)
    \/ \E path \in OpPaths, stale \in Stale : Readlink(path, stale)

SpecOps == InitOps /\ [][NextOps]_vars

\* SetLogging called again and again with every name, on a machine where
\* some of the parent directories exist
LocalBase == {Dot, << Sep >>}

LocalChoices ==
    {LocalBase, LocalBase \cup {<< "a" >>}, LocalBase \cup {<< Sep, "a" >>},
     LocalBase \cup {<< "a" >>, << "a", Sep, "a" >>}}

InitLogging ==
    /\ MkIdle /\ VolIdle /\ FdIdle /\ DeIdle /\ DirIdle /\ XaIdle
    /\ lastCall = NoCall
    /\ links = << >>
    /\ localDirs \in LocalChoices
    /\ logFile = Unset

NextLogging ==
    \E name \in LogNames, r \in RemoteResults : SetLogging(name, r.ok, r.errno)

SpecLogging == InitLogging /\ [][NextLogging]_vars

(***************************************************************************)
(* Claims about MkdirAll                                                   *)
(***************************************************************************)
\* some entry on the way to path (path itself included) is of kind k
OccupiedBy(tree, path, kinds) ==
    LET comps == Components(path)
    IN  \E k \in 1..Len(comps) :
          /\ Prefix(comps, k) \in DOMAIN tree
          /\ tree[Prefix(comps, k)] \in kinds

\* every entry on the way to path is a directory or can be created
Creatable(tree, deny, path) ==
    LET comps == Components(path)
    IN  \A k \in 1..Len(comps) :
          IF Prefix(comps, k) \in DOMAIN tree
            THEN tree[Prefix(comps, k)] = "dir"
            ELSE Prefix(comps, k) \notin deny

\* C1: a MkdirAll(P) that follows a successful MkdirAll(P) returns nil from
\* its first Stat, issues no Mkdir (and no Lstat), and leaves the tree as it was
C1_Idempotent ==
    (mk[1].status = "done" /\ mk[1].repeat) =>
        /\ mk[1].result = NoError
        /\ mk[1].nStat = 1
        /\ mk[1].nMkdir = 0
        /\ mk[1].nLstat = 0
        /\ fs = mk[1].fs0

C1_Witness ==
    /\ mk[1].status = "done"
    /\ mk[1].repeat
    /\ Len(Components(mk[1].arg)) = 2
    /\ mk[1].nStat = 1

\* C2 as stated: whenever a non-directory (regular file or symbolic link)
\* occupies P or an ancestor of P, MkdirAll(P) fails with ENOTDIR and
\* creates nothing
C2_AsClaimed ==
    (mk[1].status = "done" /\ OccupiedBy(mk[1].fs0, mk[1].arg, {"file", "link"})) =>
        /\ mk[1].result.err = "ENOTDIR"
        /\ fs = mk[1].fs0

\* C2 as amended: a regular file on the way makes MkdirAll(P) fail with
\* PathError{mkdir, ENOTDIR}; a dangling symbolic link on the way makes it
\* fail with Mkdir's own error (EEXIST); in both cases nothing is created
C2_NotDir ==
    (mk[1].status = "done") =>
        /\ OccupiedBy(mk[1].fs0, mk[1].arg, {"file"}) =>
              /\ mk[1].result.op = "mkdir"
              /\ mk[1].result.err = "ENOTDIR"
              /\ fs = mk[1].fs0
        /\ OccupiedBy(mk[1].fs0, mk[1].arg, {"link"}) =>
              /\ mk[1].result.op = "mkdir"
              /\ mk[1].result.err = "EEXIST"
              /\ fs = mk[1].fs0

C2_Witness ==
    /\ mk[1].status = "done"
    /\ Len(Components(mk[1].arg)) = 2
    /\ << A >> \in DOMAIN mk[1].fs0
    /\ mk[1].fs0[<< A >>] = "file"
    /\ OccupiedBy(mk[1].fs0, mk[1].arg, {"file"})
    /\ mk[1].result.err = "ENOTDIR"
    /\ mk[1].nStat = 2

\* C3: after a failed Mkdir, MkdirAll returns nil exactly when Lstat says
\* the path is a directory and otherwise the Mkdir error itself; and two
\* MkdirAll calls racing on one creatable path both return nil
C3_RaceTolerant ==
    /\ \A p \in Procs :
         mk[p].last.step = "lstat" =>
           /\ mk[p].last.ret = NoError <=>
                (mk[p].last.lstErr = "nil" /\ mk[p].last.lstDir)
           /\ mk[p].last.ret # NoError =>
                /\ mk[p].last.ret = mk[p].last.mkErr
                /\ mk[p].last.ret.op = "mkdir"
                /\ mk[p].last.ret.path = mk[p].last.path
    /\ ( /\ \A p \in Procs : mk[p].status = "done"
         /\ mk[1].arg = mk[2].arg
         /\ \A p \in Procs : Creatable(mk[p].fs0, denied, mk[p].arg) )
       => \A p \in Procs : mk[p].result = NoError

\* both callers saw the path missing, one lost the Mkdir race and
\* succeeded through Lstat
C3_Witness ==
    /\ \A p \in Procs : mk[p].status = "done" /\ mk[p].result = NoError
    /\ mk[1].arg = mk[2].arg
    /\ \A p \in Procs : mk[p].nMkdir > 0
    /\ \E p \in Procs : mk[p].nLstat > 0 /\ mk[p].last.step = "lstat"

(***************************************************************************)
(* Claims about the Volume life cycle                                      *)
(***************************************************************************)
PathOps == {"Stat", "Open", "OpenFile", "Create"}

\* C5: a path operation or an Open/Create/OpenFile issued while the Volume
\* is not Mounted fails with an error, yields no Descriptor, and is not
\* carried out by the remote layer
C5_AsClaimed ==
    (lastOp.op \in PathOps /\ ~lastOp.mounted) =>
        /\ lastOp.err # "nil"
        /\ ~lastOp.file
        /\ ~lastOp.remoteOk

\* the first index (from 1) of a host the remote refuses, or 0
FirstRefused(hosts, bad) ==
    LET failing == {i \in 1..Len(hosts) : hosts[i] \in bad}
    IN  IF failing = {} THEN 0 ELSE CHOOSE i \in failing : \A k \in failing : i <= k

\* C9: Init registers the hosts in argument order, one at a time; a failed
\* handle creation or a refused host h_i gives a configuration error (naming
\* i, N and the host) with exactly h_0..h_{i-1} registered; otherwise all N
\* hosts are registered in order and Init returns nil
C9_InitRegisters ==
    lastInit.called =>
        LET hosts == lastInit.hosts
            i == FirstRefused(hosts, lastInit.bad)
        IN  IF ~lastInit.newOk
              THEN lastInit.err.kind = "create" /\ lastInit.registered = << >>
              ELSE IF i = 0
                     THEN lastInit.err.kind = "nil" /\ lastInit.registered = hosts
                     ELSE /\ lastInit.err = [kind |-> "host", index |-> i - 1,
                                             of |-> Len(hosts), host |-> hosts[i]]
                          /\ lastInit.registered = SubSeq(hosts, 1, i - 1)

\* the second of two hosts is refused: the first stays registered
C9_Witness ==
    /\ lastInit.called
    /\ lastInit.newOk
    /\ Len(lastInit.hosts) = 2
    /\ lastInit.err.kind = "host"
    /\ lastInit.err.index = 1
    /\ lastInit.registered = << lastInit.hosts[1] >>
    /\ glfs.servers = lastInit.registered

(***************************************************************************)
(* Claims about descriptors                                                *)
(***************************************************************************)
\* C4: an operation on a closed Descriptor fails with a handle-validity
\* error: it does not succeed, the released native handle never reaches the
\* remote call, and no other open Descriptor changes
C4_AsClaimed ==
    lastFd.onClosed =>
        /\ lastFd.err # "nil"
        /\ ~lastFd.panicked
        /\ ~lastFd.withReleased
        /\ ~lastFd.othersChanged

\* C10: a zero-length Read, Write, Pread or Pwrite on an open Descriptor
\* does not index the empty buffer: the remote call gets the zero-length
\* sentinel pointer with count 0 and the call returns normally
C10_AsClaimed ==
    (lastFd.op \in {"Read", "Write", "Pread", "Pwrite"} /\ ~lastFd.onClosed
       /\ lastFd.len = 0) =>
        /\ ~lastFd.panicked
        /\ lastFd.remoteCalled
        /\ lastFd.ptr = "zero"
        /\ lastFd.count = 0

(***************************************************************************)
(* Claims about enumeration                                                *)
(***************************************************************************)
Min(a, b) == IF a < b THEN a ELSE b

\* the index (from 0) of the first zero byte of a buffer, or its length
FirstZero(buf) ==
    LET zeros == {i \in 1..Len(buf) : buf[i] = 0}
    IN  IF zeros = {} THEN Len(buf)
        ELSE (CHOOSE i \in zeros : \A k \in zeros : i <= k) - 1

\* the names of the directory's entries, in order
EntryNames ==
    [i \in 1..Len(dirEntries) |-> SubSeq(dirEntries[i], 1, FirstZero(dirEntries[i]))]

C7_DirentName ==
    deParsed =>
        /\ Len(deOut.name) = Min(FirstZero(deBuf), Len(deBuf))
        /\ deOut.name = SubSeq(deBuf, 1, FirstZero(deBuf))
        /\ \A i \in 1..Len(deOut.name) : deOut.name[i] # 0
        /\ deOut.lastRead < Len(deBuf)

\* a buffer with no zero byte at all, parsed to its full length
C7_Witness ==
    /\ deParsed
    /\ FirstZero(deBuf) = DirentNameLen
    /\ Len(deOut.name) = DirentNameLen

\* a short name followed by a zero byte and then garbage
C7_WitnessGarbage ==
    /\ deParsed
    /\ FirstZero(deBuf) = 1
    /\ deBuf[3] # 0
    /\ Len(deOut.name) = 1

(***************************************************************************)
(* Claims about extended attributes                                        *)
(***************************************************************************)
\* C8: a get with a zero-length destination of an existing attribute returns
\* the value's length with a nil error and writes nothing; a following get
\* into a destination that holds the value returns that same length
C8_SizeQuery ==
    /\ (lastXa.op # "none" /\ lastXa.destLen = 0 /\ xattr.present) =>
          /\ lastXa.n = Len(xattr.val)
          /\ lastXa.err = "nil"
          /\ lastXa.ptr = "nil" /\ lastXa.size = 0
          /\ lastXa.written = << >>
    /\ (lastXa.op # "none" /\ lastXa.destLen > 0 /\ xaQuery.valid
          /\ lastXa.destLen >= xaQuery.n) =>
          /\ lastXa.n = xaQuery.n
          /\ lastXa.err = "nil"
          /\ lastXa.written = xattr.val

\* a size query answered 2, then a get into 3 bytes returned 2
C8_Witness ==
    /\ lastXa.op = "Fgetxattr"
    /\ lastXa.destLen = 3
    /\ xaQuery.valid
    /\ xaQuery.n = 2
    /\ lastXa.n = 2
    /\ Len(lastXa.written) = 2

(***************************************************************************)
(* Claims about the wrapper calls                                          *)
(***************************************************************************)
\* C11: Readlink never hands the remote read-link call a target buffer of
\* length zero, never takes the first element of an empty buffer, and for an
\* existing symbolic link returns the link's target with a nil error
C11_AsClaimed ==
    lastCall.op = "Readlink" =>
        /\ ~lastCall.panicked
        /\ lastCall.called => lastCall.size > 0
        /\ lastCall.path \in DOMAIN links =>
             /\ lastCall.error = NoError
             /\ lastCall.value = links[lastCall.path]

\* the parent directory of a path string: the path of all its components
\* but the last
ParentPath(name) ==
    LET comps == Components(name)
        rooted == Len(name) > 0 /\ name[1] = Sep
        body == JoinFrom(SubSeq(comps, 1, Len(comps) - 1), 1)
    IN  IF rooted THEN << Sep >> \o body
        ELSE IF body = << >> THEN Dot ELSE body

\* C12: SetLogging with a non-empty name whose parent directory does not
\* exist returns an error and issues no remote set-logging call, so the
\* remote is never told a log file whose parent is missing; with the empty
\* name it issues the remote call with a null path
C12_SetLogging ==
    /\ lastCall.op = "SetLogging" =>
         /\ (lastCall.path # << >> /\ ParentPath(lastCall.path) \notin localDirs) =>
              /\ lastCall.error # NoError
              /\ ~lastCall.called
         /\ lastCall.path = << >> =>
              /\ lastCall.called
              /\ logFile = << "NULL" >>
    /\ logFile \notin {Unset, << "NULL" >>} => ParentPath(logFile) \in localDirs

\* the default log location was set, then "a/a" was refused because "a"
\* does not exist
C12_Witness ==
    /\ lastCall.op = "SetLogging"
    /\ lastCall.path = << "a", Sep, "a" >>
    /\ << "a" >> \notin localDirs
    /\ lastCall.error.err = "ENOENT"
    /\ ~lastCall.called
    /\ logFile = << "NULL" >>

\* C13: every path call of the Volume that fails returns an error that
\* carries the operation name, the path it was given and the cause the
\* remote reported
C13_AsClaimed ==
    (lastCall.op \in PathOpNames /\ lastCall.called /\ ~lastCall.ok) =>
        /\ lastCall.error.op # ""
        /\ lastCall.error.path = lastCall.path
        /\ lastCall.error.err = lastCall.errno

\* C15: a path or descriptor call returns a non-nil error exactly when its
\* remote call reported a failure, whatever errno holds after a call that
\* reported success
C15_AsClaimed ==
    (lastCall.op \in PathOpNames \cup FdOpNames /\ lastCall.called) =>
        (lastCall.error # NoError <=> ~lastCall.ok)

(***************************************************************************)
(* Claims about what MkdirAll leaves behind and how far it goes            *)
(***************************************************************************)
\* every entry of tree is in now, unchanged
Kept(tree, now) ==
    \A node \in DOMAIN tree : node \in DOMAIN now /\ now[node] = tree[node]

\* C14: when MkdirAll returns an error after having created ancestors of
\* its target, everything that existed or was created still exists: no step
\* removes an entry, and the tree on return holds the tree at the call
C14_NoRollback ==
    /\ [](mk[1].status = "done" /\ mk[1].result # NoError => Kept(mk[1].fs0, fs))
    /\ [][Kept(fs, fs')]_vars

\* MkdirAll("a/a") created "a" and was refused "a/a"
C14_Witness ==
    /\ mk[1].status = "done"
    /\ mk[1].result.err = "EACCES"
    /\ mk[1].nMkdir >= 2
    /\ << A >> \notin DOMAIN mk[1].fs0
    /\ << A >> \in DOMAIN fs
    /\ fs[<< A >>] = "dir"

\* each invocation on the stack works on a strictly shorter prefix of its
\* caller's path
ShorterPrefixes(stack) ==
    \A k \in 2..Len(stack) :
        /\ Len(stack[k].path) < Len(stack[k - 1].path)
        /\ stack[k].path = SubSeq(stack[k - 1].path, 1, Len(stack[k].path))

\* C16: MkdirAll terminates for every path string, whatever the remote
\* answers: every recursive call is on a strictly shorter prefix, the depth
\* is at most the length of the path (1 for the empty path), and with one
\* invocation per level there are at most that many Stat, Mkdir and Lstat
\* calls
C16_Terminates ==
    /\ [](/\ ShorterPrefixes(mk[1].stack)
          /\ mk[1].maxDepth <= (IF mk[1].arg = << >> THEN 1 ELSE Len(mk[1].arg))
          /\ Len(mk[1].stack) <= mk[1].maxDepth
          /\ mk[1].nStat <= mk[1].maxDepth
          /\ mk[1].nMkdir <= mk[1].maxDepth
          /\ mk[1].nLstat <= mk[1].maxDepth)
    /\ (mk[1].status = "running") ~> (mk[1].status = "done")

\* MkdirAll("a/a") went down to "a" and returned
C16_Witness ==
    /\ mk[1].status = "done"
    /\ mk[1].arg = << "a", Sep, "a" >>
    /\ mk[1].maxDepth = 2
    /\ mk[1].nStat = 2
    /\ mk[1].nMkdir = 2

====
